---- MODULE Spec2Model ----
(***************************************************************************)
(* Write-back, write-allocate, LRU cache simulator (cache.c / main.c).     *)
(*                                                                         *)
(* An `unsigned long` address (64 bit, LP64) is the set of its one-bit     *)
(* positions, a subset of 0..63.  An `int` tag is the 32-bit pattern the   *)
(* conversion unsigned long -> int keeps, again a set of bit positions, a  *)
(* subset of 0..31; two ints are equal exactly when their patterns are.    *)
(* Small non-negative ints (sizes, indices, counters) are plain integers.  *)
(***************************************************************************)
EXTENDS Integers, Sequences, FiniteSets, TLC

VARIABLES
    cache,       \* the Cache object
    pc,          \* "config" before construction, "run" while replaying, "done" after
                 \* the report, "exit" after exit(), "segv" after a fatal signal
    args,        \* the configuration handed to validate_args / initialize_cache
    op,          \* the CacheOp of the last access_cache call
    ret,         \* its return value (TRUE hit, FALSE miss; FALSE before any call)
    set_index,   \* the set it decoded
    line_index,  \* the line it hit or filled
    evicted,     \* on a miss, the victim line as it was before being overwritten
    mru,         \* reference model: per set, the touched lines, most recent first
    touched,     \* the line-sized blocks (address >> log_line_size) accessed so far
                 \* (kept by SpecCold only)
    stored,      \* per line: has it received a store since it was last filled
    trace_stats, \* the TraceStats of simulate_cache (kept by SpecTrace only)
    outcomes,    \* the calls completed so far, oldest first: engine, CacheOp and
                 \* return value of each, in SpecTrace also the instruction count
                 \* of the record (kept by SpecTrace and SpecPair only)
    other        \* a second Cache object of the same process (SpecPair only)

vars == <<cache, pc, args, op, ret, set_index, line_index, evicted, mru, touched,
          stored, trace_stats, outcomes, other>>

(***************************************************************************)
(* Bounds of the exploration.                                              *)
(***************************************************************************)
\* number of access_cache calls explored per run
MaxAccesses == 5
\* configurations: cache sizes 2^0 .. 2^MaxLogCacheKB kilobytes
MaxLogCacheKB == 3
\* access_cache calls explored after each configuration
MaxConfigAccesses == 2
\* access_cache calls explored with the history of accessed blocks
MaxColdAccesses == 3
\* records of the trace file replayed by simulate_cache
MaxTraceLines == 3
\* access_cache calls explored on caches constructed without validation
MaxEngineAccesses == 3
\* access_cache calls explored on two caches together
MaxPairAccesses == 3

(***************************************************************************)
(* Program constants.                                                      *)
(***************************************************************************)
MISS_PENALTY == 30
DIRTY_WB_PENALTY == 2
\* width of `int`
INT_BITS == 32

(***************************************************************************)
(* Bit-level arithmetic on bit-position sets.                              *)
(***************************************************************************)
RECURSIVE Pow2(_)
\* 1 << n
Pow2(n) == IF n = 0 THEN 1 ELSE 2 * Pow2(n - 1)

\* a >> n on unsigned long
Shr(a, n) == {b - n : b \in {x \in a : x >= n}}

RECURSIVE BitsFrom(_, _)
\* the one-bits of n, its lowest bit standing at position b
BitsFrom(n, b) ==
    IF n = 0 THEN {}
    ELSE (IF n % 2 = 1 THEN {b} ELSE {}) \cup BitsFrom(n \div 2, b + 1)

\* the bit pattern of a non-negative int n
BitsOf(n) == BitsFrom(n, 0)

\* conversion unsigned long -> int: the low INT_BITS bits are kept
ToInt(a) == {b \in a : b < INT_BITS}

RECURSIVE Value(_)
\* the number a pattern below bit 31 denotes
Value(a) == IF a = {} THEN 0
            ELSE LET b == CHOOSE x \in a : TRUE IN Pow2(b) + Value(a \ {b})

Min(S) == CHOOSE x \in S : \A y \in S : x <= y
Max(S) == CHOOSE x \in S : \A y \in S : x >= y

(***************************************************************************)
(* cache.c: construction.                                                  *)
(***************************************************************************)
RECURSIVE log2(_)
\* while (n >>= 1) log_value++;
log2(n) == IF n \div 2 = 0 THEN 0 ELSE 1 + log2(n \div 2)

\* tag 0, not valid, not dirty, lru_order = slot index, in every set
initialize_cache_lines(num_sets, associativity) ==
    [i \in 0..(num_sets - 1) |->
        [j \in 0..(associativity - 1) |->
            [tag |-> {}, is_valid |-> FALSE, is_dirty |-> FALSE, lru_order |-> j]]]
\* slip: the fully associative organisation is laid out as one way per set
CacheShape_oneway(associativity, cache_size, line_size) ==
    IF associativity = 0 \/ associativity = 1
    THEN [associativity |-> 1, num_sets |-> (cache_size * 1024) \div line_size]
    ELSE [associativity |-> associativity,
          num_sets |-> (cache_size * 1024) \div (line_size * associativity)]

\* slip: the set-associative num_sets is not divided by the associativity
CacheShape_flat(associativity, cache_size, line_size) ==
    IF associativity = 0
    THEN [associativity |-> (cache_size * 1024) \div line_size, num_sets |-> 1]
    ELSE [associativity |-> associativity,
          num_sets |-> (cache_size * 1024) \div line_size]

\* the associativity field (ways) and num_sets of the three organisations
CacheShape(associativity, cache_size, line_size) ==
    IF associativity = 0
    THEN [associativity |-> (cache_size * 1024) \div line_size, num_sets |-> 1]
    ELSE IF associativity = 1
    THEN [associativity |-> 1, num_sets |-> (cache_size * 1024) \div line_size]
    ELSE [associativity |-> associativity,
          num_sets |-> (cache_size * 1024) \div (line_size * associativity)]

initialize_cache(associativity, cache_size, line_size, miss_penalty, dirty_wb_penalty) ==
    LET shape == CacheShape(associativity, cache_size, line_size) IN
    [associativity |-> shape.associativity,
     cache_size |-> cache_size,
     line_size |-> line_size,
     miss_penalty |-> miss_penalty,
     dirty_wb_penalty |-> dirty_wb_penalty,
     num_sets |-> shape.num_sets,
     sets |-> initialize_cache_lines(shape.num_sets, shape.associativity),
     stats |-> [hits |-> 0, misses |-> 0, dirty_write_backs |-> 0],
     log_line_size |-> log2(line_size),
     log_num_sets |-> log2(shape.num_sets)]

(***************************************************************************)
(* main.c: validation of the configuration.                                *)
(***************************************************************************)
\* cache_size * 1024 on int.  From cache_size = 2^21 on the product leaves the
\* range of int (signed overflow); the Makefile compiles with -O0, where the
\* multiply keeps the low 32 bits of the product, read in two's complement.
int_mul_1024(cache_size) ==
    LET low == (cache_size % 2097152) * 1024
    IN IF (cache_size \div 2097152) % 2 = 1
       THEN (low - 1073741824) - 1073741824
       ELSE low

\* (n > 0) && (n & (n - 1)) == 0
is_pow2(n) == (n > 0) /\ (BitsOf(n) \cap BitsOf(n - 1) = {})

validate_args(associativity, line_size, cache_size, miss_penalty, dirty_wb_penalty) ==
    IF associativity < 0 \/ line_size <= 0 \/ cache_size <= 0
       \/ miss_penalty <= 0 \/ dirty_wb_penalty <= 0 THEN FALSE
    ELSE IF associativity # 0 /\ associativity # 1 /\ ~is_pow2(associativity) THEN FALSE
    ELSE IF ~is_pow2(line_size) \/ ~is_pow2(cache_size) THEN FALSE
    ELSE IF int_mul_1024(cache_size) < line_size THEN FALSE
    ELSE IF int_mul_1024(cache_size) % line_size # 0 THEN FALSE
    ELSE IF associativity > int_mul_1024(cache_size) \div line_size THEN FALSE
    ELSE TRUE

(***************************************************************************)
(* cache.c: address extraction.                                            *)
(***************************************************************************)
\* slip: every address is decoded to set 0
extract_set_index_zero(address, c) == 0
\* slip: the mask is 1 << log_num_sets, without the - 1
extract_set_index_widemask(address, c) ==
    IF c.num_sets = 1 THEN 0
    ELSE Value(ToInt(Shr(address, c.log_line_size) \cap BitsOf(Pow2(c.log_num_sets))))

\* slip: the line offset is not shifted out
extract_set_index_noshift(address, c) ==
    IF c.num_sets = 1 THEN 0
    ELSE Value(ToInt(address \cap BitsOf(Pow2(c.log_num_sets) - 1)))

\* (address >> log_line_size) & ((1 << log_num_sets) - 1), returned as int
extract_set_index(address, c) ==
    IF c.num_sets = 1 THEN 0
    ELSE Value(ToInt(Shr(address, c.log_line_size) \cap BitsOf(Pow2(c.log_num_sets) - 1)))

\* address >> (log_line_size + log_num_sets), returned as int
extract_tag_number(address, c) ==
    ToInt(Shr(address, c.log_line_size + c.log_num_sets))

(***************************************************************************)
(* cache.c: LRU handling.                                                  *)
(***************************************************************************)
\* slip: one recency clock for the whole cache, the lines of every set ranked
\* below the target move up
update_lru_order_global(c, s, l) ==
    LET target_order == c.sets[s][l].lru_order
        bumped == [i \in DOMAIN c.sets |->
                     [j \in DOMAIN c.sets[i] |->
                        IF c.sets[i][j].lru_order < target_order
                        THEN [c.sets[i][j] EXCEPT !.lru_order = @ + 1]
                        ELSE c.sets[i][j]]]
    IN [c EXCEPT !.sets = [bumped EXCEPT ![s][l].lru_order = 0]]
\* slip: the target gets rank 0 and no other line moves
update_lru_order_nobump(c, s, l) ==
    [c EXCEPT !.sets[s][l].lru_order = 0]

\* slip: every other line moves up by one, whatever its rank
update_lru_order_all(c, s, l) ==
    [c EXCEPT !.sets[s] =
        [i \in DOMAIN @ |->
            IF i = l THEN [@[i] EXCEPT !.lru_order = 0]
            ELSE [@[i] EXCEPT !.lru_order = @ + 1]]]

\* slip: the ranks of set 0 are updated, whatever set was accessed
update_lru_order_set0(c, s, l) ==
    LET lines == c.sets[0]
        target_order == lines[l].lru_order
        bumped == [i \in DOMAIN lines |->
                     IF lines[i].lru_order < target_order
                     THEN [lines[i] EXCEPT !.lru_order = @ + 1]
                     ELSE lines[i]]
    IN [c EXCEPT !.sets[0] = [bumped EXCEPT ![l].lru_order = 0]]

\* slip: `>` for `<` in the scan, the lines ranked above the target move up
update_lru_order_gt(c, s, l) ==
    LET lines == c.sets[s]
        target_order == lines[l].lru_order
        bumped == [i \in DOMAIN lines |->
                     IF lines[i].lru_order > target_order
                     THEN [lines[i] EXCEPT !.lru_order = @ + 1]
                     ELSE lines[i]]
    IN [c EXCEPT !.sets[s] = [bumped EXCEPT ![l].lru_order = 0]]
\* slip: the target keeps its rank, the assignment of 0 is left out
update_lru_order_noreset(c, s, l) ==
    LET lines == c.sets[s]
        target_order == lines[l].lru_order
        bumped == [i \in DOMAIN lines |->
                     IF lines[i].lru_order < target_order
                     THEN [lines[i] EXCEPT !.lru_order = @ + 1]
                     ELSE lines[i]]
    IN [c EXCEPT !.sets[s] = bumped]

\* every line ranked below the target moves up by one, the target gets 0
update_lru_order(c, s, l) ==
    LET lines == c.sets[s]
        target_order == lines[l].lru_order
        bumped == [i \in DOMAIN lines |->
                     IF lines[i].lru_order < target_order
                     THEN [lines[i] EXCEPT !.lru_order = @ + 1]
                     ELSE lines[i]]
    IN [c EXCEPT !.sets[s] = [bumped EXCEPT ![l].lru_order = 0]]
\* slip: the scan does not stop at an invalid line, the greatest lru_order wins
find_lru_line_index_noinvalid(c, s) ==
    LET lines == c.sets[s]
        max_order == Max({lines[i].lru_order : i \in DOMAIN lines} \cup {0})
    IN IF max_order = 0 THEN 0
       ELSE Min({i \in DOMAIN lines : lines[i].lru_order = max_order})

\* slip: with every line valid the victim is the line of lru_order 0
find_lru_line_index_mru(c, s) ==
    LET lines == c.sets[s]
        invalid == {i \in DOMAIN lines : ~lines[i].is_valid}
    IN IF invalid # {} THEN Min(invalid)
       ELSE Min({i \in DOMAIN lines : lines[i].lru_order = 0})

\* slip: `<` for `>` in the scan, so lru_index never leaves line 0
find_lru_line_index_lt(c, s) ==
    LET lines == c.sets[s]
        invalid == {i \in DOMAIN lines : ~lines[i].is_valid}
    IN IF invalid # {} THEN Min(invalid) ELSE 0

\* slip: the scan for an invalid line keeps the last one found
find_lru_line_index_lastinvalid(c, s) ==
    LET lines == c.sets[s]
        invalid == {i \in DOMAIN lines : ~lines[i].is_valid}
        max_order == Max({lines[i].lru_order : i \in DOMAIN lines} \cup {0})
    IN IF invalid # {} THEN Max(invalid)
       ELSE IF max_order = 0 THEN 0
       ELSE Min({i \in DOMAIN lines : lines[i].lru_order = max_order})

\* the loop returns the first invalid line it meets; with none, max_order and
\* lru_index start at 0 and move only on a strictly greater lru_order, which
\* leaves the first line holding the greatest order, or line 0 if none exceeds 0
find_lru_line_index(c, s) ==
    LET lines == c.sets[s]
        invalid == {i \in DOMAIN lines : ~lines[i].is_valid}
        max_order == Max({lines[i].lru_order : i \in DOMAIN lines} \cup {0})
    IN IF invalid # {} THEN Min(invalid)
       ELSE IF max_order = 0 THEN 0
       ELSE Min({i \in DOMAIN lines : lines[i].lru_order = max_order})

(***************************************************************************)
(* cache.c: access.                                                        *)
(***************************************************************************)
\* slip: the scan compares the tag only, is_valid is not looked at
hit_line_novalid(lines, tag) ==
    LET found == {i \in DOMAIN lines : lines[i].tag = tag}
    IN IF found = {} THEN -1 ELSE Min(found)

\* slip: the loop returns false at the first line that does not match
hit_line_firstonly(lines, tag) ==
    IF 0 \in DOMAIN lines /\ lines[0].is_valid /\ lines[0].tag = tag THEN 0 ELSE -1

\* the loop of is_cache_hit stops at the first valid line holding the tag
hit_line(lines, tag) ==
    LET found == {i \in DOMAIN lines : lines[i].is_valid /\ lines[i].tag = tag}
    IN IF found = {} THEN -1 ELSE Min(found)
\* slip: a hit is not counted
is_cache_hit_nocount(c, cache_op, s, tag) ==
    LET i == hit_line(c.sets[s], tag) IN
    IF i = -1 THEN [hit |-> FALSE, cache |-> c, line |-> -1]
    ELSE LET c1 == update_lru_order(c, s, i)
         IN [hit |-> TRUE,
             cache |-> IF cache_op.access_type = "s"
                       THEN [c1 EXCEPT !.sets[s][i].is_dirty = TRUE] ELSE c1,
             line |-> i]
\* slip: the dirty bit of the line hit is assigned, a load clears it
is_cache_hit_loadcleans(c, cache_op, s, tag) ==
    LET i == hit_line(c.sets[s], tag) IN
    IF i = -1 THEN [hit |-> FALSE, cache |-> c, line |-> -1]
    ELSE LET c1 == update_lru_order(c, s, i)
             c2 == [c1 EXCEPT !.sets[s][i].is_dirty = (cache_op.access_type = "s")]
         IN [hit |-> TRUE,
             cache |-> [c2 EXCEPT !.stats.hits = @ + 1],
             line |-> i]

\* slip: a hit is counted in misses
is_cache_hit_miscount(c, cache_op, s, tag) ==
    LET i == hit_line(c.sets[s], tag) IN
    IF i = -1 THEN [hit |-> FALSE, cache |-> c, line |-> -1]
    ELSE LET c1 == update_lru_order(c, s, i)
             c2 == IF cache_op.access_type = "s"
                   THEN [c1 EXCEPT !.sets[s][i].is_dirty = TRUE] ELSE c1
         IN [hit |-> TRUE,
             cache |-> [c2 EXCEPT !.stats.misses = @ + 1],
             line |-> i]

\* slip: a store that hits leaves the dirty bit alone
is_cache_hit_nodirty(c, cache_op, s, tag) ==
    LET i == hit_line(c.sets[s], tag) IN
    IF i = -1 THEN [hit |-> FALSE, cache |-> c, line |-> -1]
    ELSE [hit |-> TRUE,
          cache |-> [update_lru_order(c, s, i) EXCEPT !.stats.hits = @ + 1],
          line |-> i]

\* hit: promote the line, a store dirties it, hits++; the record carries the
\* return value, the cache afterwards and the line that was hit
is_cache_hit(c, cache_op, s, tag) ==
    LET i == hit_line(c.sets[s], tag) IN
    IF i = -1 THEN [hit |-> FALSE, cache |-> c, line |-> -1]
    ELSE LET c1 == update_lru_order(c, s, i)
             c2 == IF cache_op.access_type = "s"
                   THEN [c1 EXCEPT !.sets[s][i].is_dirty = TRUE] ELSE c1
         IN [hit |-> TRUE,
             cache |-> [c2 EXCEPT !.stats.hits = @ + 1],
             line |-> i]
\* slip: the fill leaves the victim's tag as it was
handle_cache_miss_notag(c, cache_op, s, tag) ==
    LET c1 == [c EXCEPT !.stats.misses = @ + 1]
        lru_index == find_lru_line_index(c1, s)
        c2 == IF c1.sets[s][lru_index].is_dirty
              THEN [c1 EXCEPT !.stats.dirty_write_backs = @ + 1] ELSE c1
        c3 == [c2 EXCEPT !.sets[s][lru_index] =
                 [@ EXCEPT !.is_valid = TRUE,
                           !.is_dirty = (cache_op.access_type = "s")]]
    IN [cache |-> update_lru_order(c3, s, lru_index), line |-> lru_index]
\* slip: the fill flips the valid bit of the victim
handle_cache_miss_toggle(c, cache_op, s, tag) ==
    LET c1 == [c EXCEPT !.stats.misses = @ + 1]
        lru_index == find_lru_line_index(c1, s)
        c2 == IF c1.sets[s][lru_index].is_dirty
              THEN [c1 EXCEPT !.stats.dirty_write_backs = @ + 1] ELSE c1
        c3 == [c2 EXCEPT !.sets[s][lru_index] =
                 [@ EXCEPT !.tag = tag, !.is_valid = ~@,
                           !.is_dirty = (cache_op.access_type = "s")]]
    IN [cache |-> update_lru_order(c3, s, lru_index), line |-> lru_index]
\* slip: a miss writes the whole set back, every line of it ends clean
handle_cache_miss_flushset(c, cache_op, s, tag) ==
    LET c1 == [c EXCEPT !.stats.misses = @ + 1]
        lru_index == find_lru_line_index(c1, s)
        c2 == IF c1.sets[s][lru_index].is_dirty
              THEN [c1 EXCEPT !.stats.dirty_write_backs = @ + 1] ELSE c1
        c3 == [c2 EXCEPT !.sets[s] =
                 [i \in DOMAIN @ |->
                    IF i = lru_index
                    THEN [@[i] EXCEPT !.tag = tag, !.is_valid = TRUE,
                                      !.is_dirty = (cache_op.access_type = "s")]
                    ELSE [@[i] EXCEPT !.is_dirty = FALSE]]]
    IN [cache |-> update_lru_order(c3, s, lru_index), line |-> lru_index]

\* slip: the fill ORs the store into the victim's dirty bit
handle_cache_miss_keepdirty(c, cache_op, s, tag) ==
    LET c1 == [c EXCEPT !.stats.misses = @ + 1]
        lru_index == find_lru_line_index(c1, s)
        c2 == IF c1.sets[s][lru_index].is_dirty
              THEN [c1 EXCEPT !.stats.dirty_write_backs = @ + 1] ELSE c1
        c3 == [c2 EXCEPT !.sets[s][lru_index] =
                 [@ EXCEPT !.tag = tag, !.is_valid = TRUE,
                           !.is_dirty = @ \/ (cache_op.access_type = "s")]]
    IN [cache |-> update_lru_order(c3, s, lru_index), line |-> lru_index]
\* slip: a write-back is counted for every valid victim, dirty or clean
handle_cache_miss_wbvalid(c, cache_op, s, tag) ==
    LET c1 == [c EXCEPT !.stats.misses = @ + 1]
        lru_index == find_lru_line_index(c1, s)
        c2 == IF c1.sets[s][lru_index].is_valid
              THEN [c1 EXCEPT !.stats.dirty_write_backs = @ + 1] ELSE c1
        c3 == [c2 EXCEPT !.sets[s][lru_index] =
                 [@ EXCEPT !.tag = tag, !.is_valid = TRUE,
                           !.is_dirty = (cache_op.access_type = "s")]]
    IN [cache |-> update_lru_order(c3, s, lru_index), line |-> lru_index]

\* miss: misses++, pick the victim, count its write-back, overwrite, promote
handle_cache_miss(c, cache_op, s, tag) ==
    LET c1 == [c EXCEPT !.stats.misses = @ + 1]
        lru_index == find_lru_line_index(c1, s)
        c2 == IF c1.sets[s][lru_index].is_dirty
              THEN [c1 EXCEPT !.stats.dirty_write_backs = @ + 1] ELSE c1
        c3 == [c2 EXCEPT !.sets[s][lru_index] =
                 [@ EXCEPT !.tag = tag, !.is_valid = TRUE,
                           !.is_dirty = (cache_op.access_type = "s")]]
    IN [cache |-> update_lru_order(c3, s, lru_index), line |-> lru_index]

(***************************************************************************)
(* Inputs.                                                                 *)
(***************************************************************************)
\* the three getters return the counter and write nothing
get_cache_hits(c) == c.stats.hits
get_cache_misses(c) == c.stats.misses
get_dirty_write_backs(c) == c.stats.dirty_write_backs

\* 'l' load, 's' store
AccessTypes == {"l", "s"}

\* 0x0, 0x100, 0x200, 0x400, 0x800, 0x100000000000
Addresses == {{}, {8}, {9}, {10}, {11}, {44}}

\* the configurations replayed in depth: 1 KB in lines of 256 or 512 bytes
Geometries ==
    {g \in [associativity : 0..2, cache_size : {1}, line_size : {256, 512}] :
        validate_args(g.associativity, g.line_size, g.cache_size,
                      MISS_PENALTY, DIRTY_WB_PENALTY)}

\* the command lines of the configuration runs, malformed ones included, and
\* -s 2097152, -s 4194304 (caches of 2 and 4 GB)
Configurations ==
    [associativity : 0..8,
     cache_size : {Pow2(k) : k \in 0..MaxLogCacheKB} \cup {3, 2097152, 4194304},
     line_size : {Pow2(k) : k \in 4..11} \cup {0, 24}]
\* the operation characters of the trace records: load, store, and one that
\* is neither
TraceAccessTypes == {"l", "s", "x"}

\* the addresses of a trace file: the first bytes of blocks 0, 1 and 2, that is
\* 0x0, 0x10, 0x20 for 16-byte lines and 0x0, 0x200, 0x400 for 512-byte lines
TraceAddresses(line_size) == {{}, {log2(line_size)}, {log2(line_size) + 1}}

\* the instruction count of a trace record
TraceInstructions == {2}

\* the records of a trace file: a load or a store of each address, and one
\* record with an operation character that is neither 'l' nor 's'
TraceRecords(line_size) ==
    {r \in [access_type : TraceAccessTypes, address : TraceAddresses(line_size)] :
        r.access_type \notin {"l", "s"} => r.address = {}}

\* the command lines of the trace runs: the defaults of main.c (direct-mapped,
\* 16 KB, 16-byte lines), the two-way -s 32 -l 16, the two-way -s 1 -l 512
DefaultConfiguration == [associativity |-> 1, cache_size |-> 16, line_size |-> 16]
TraceConfigurations ==
    {DefaultConfiguration,
     [associativity |-> 2, cache_size |-> 32, line_size |-> 16],
     [associativity |-> 2, cache_size |-> 1, line_size |-> 512]}
\* arguments of initialize_cache calls that no validate_args has seen: with
\* 2048-byte lines in 1 KB, or 4 ways of 512 bytes, num_sets comes out as 0
EngineGeometries ==
    [associativity : {1, 2, 4}, cache_size : {1}, line_size : {256, 512, 2048}]
\* the configurations and addresses of the runs with two caches: 1 KB in
\* 512-byte lines, direct-mapped or two-way; 0x0, 0x200, 0x400
PairGeometries == [associativity : {1, 2}, cache_size : {1}, line_size : {512}]
PairAddresses == {{}, {9}, {10}}

NoCache == [num_sets |-> 0, associativity |-> 0]
NoOp == [access_type |-> "-", address |-> {}]
NoLine == [tag |-> {}, is_valid |-> FALSE, is_dirty |-> FALSE, lru_order |-> -1]
\* TraceStats trace_stats = {0, 0, 0, 0, 0}
NoTraceStats == [memory_access_count |-> 0, load_count |-> 0, store_count |-> 0,
                 instruction_count |-> 0, cycle_count |-> 0]

\* move line l to the front of the most-recent-first list
Touch(list, l) ==
    <<l>> \o SelectSeq(list, LAMBDA x : x # l)

(***************************************************************************)
(* The engine: construction, then one access_cache call per step.          *)
(***************************************************************************)
Constructed(g) ==
    /\ cache = initialize_cache(g.associativity, g.cache_size, g.line_size,
                                MISS_PENALTY, DIRTY_WB_PENALTY)
    /\ pc = "run"
    /\ args = g
    /\ op = NoOp
    /\ ret = FALSE
    /\ set_index = -1
    /\ line_index = -1
    /\ evicted = NoLine
    /\ mru = [s \in DOMAIN cache.sets |-> <<>>]
    /\ touched = {}
    /\ stored = [s \in DOMAIN cache.sets |-> [l \in DOMAIN cache.sets[s] |-> FALSE]]
    /\ trace_stats = NoTraceStats
    /\ outcomes = <<>>
    /\ other = NoCache

Init == \E g \in Geometries : Constructed(g)

\* hit or miss: the return value, the cache afterwards, the line used
access_result(c, cache_op, s) ==
    LET tag == extract_tag_number(cache_op.address, c)
        h == is_cache_hit(c, cache_op, s, tag)
    IN IF h.hit THEN h
       ELSE LET m == handle_cache_miss(c, cache_op, s, tag)
            IN [hit |-> FALSE, cache |-> m.cache, line |-> m.line]

\* undefined behaviour: the lines pointer is read from beyond the array of
\* sets.  The process is killed by the bad read (SIGSEGV, what the glibc build
\* does on a fresh heap), or the scan runs over foreign memory and takes the
\* hit path or the miss path, with or without a write-back counted; what it
\* writes lands outside the lines of the cache.
out_of_bounds_access(c) ==
    {[pc |-> "segv", hit |-> FALSE, cache |-> c],
     [pc |-> "run", hit |-> TRUE, cache |-> [c EXCEPT !.stats.hits = @ + 1]],
     [pc |-> "run", hit |-> FALSE, cache |-> [c EXCEPT !.stats.misses = @ + 1]],
     [pc |-> "run", hit |-> FALSE,
      cache |-> [c EXCEPT !.stats.misses = @ + 1, !.stats.dirty_write_backs = @ + 1]]}

access_cache(access_type, address, max) ==
    LET cache_op == [access_type |-> access_type, address |-> address]
        s == extract_set_index(address, cache)
    IN
    /\ pc = "run"
    /\ cache.stats.hits + cache.stats.misses < max
    /\ op' = cache_op
    /\ set_index' = s
    /\ args' = args
    /\ IF s > cache.num_sets
       THEN \* "Set index is out of range", exit(EXIT_FAILURE)
            /\ pc' = "exit"
            /\ UNCHANGED <<cache, ret, line_index, evicted, mru, stored>>
       ELSE IF s \notin DOMAIN cache.sets
       THEN \* cache->sets[set_index] lies outside the allocated array
            \E r \in out_of_bounds_access(cache) :
                /\ pc' = r.pc
                /\ cache' = r.cache
                /\ ret' = r.hit
                /\ line_index' = -1
                /\ evicted' = NoLine
                /\ UNCHANGED <<mru, stored>>
       ELSE \E r \in {access_result(cache, cache_op, s)} :
            /\ pc' = "run"
            /\ cache' = r.cache
            /\ ret' = r.hit
            /\ line_index' = r.line
            /\ evicted' = IF r.hit THEN NoLine ELSE cache.sets[s][r.line]
            /\ mru' = [mru EXCEPT ![s] = Touch(@, r.line)]
            /\ stored' = [stored EXCEPT ![s][r.line] =
                            IF r.hit THEN @ \/ (access_type = "s")
                            ELSE (access_type = "s")]

Next ==
    \E t \in AccessTypes, a \in Addresses :
        access_cache(t, a, MaxAccesses)
        /\ UNCHANGED <<touched, trace_stats, outcomes, other>>

Spec == Init /\ [][Next]_vars

\* the same replay, with the history of the blocks accessed kept beside it
NextCold ==
    \E t \in AccessTypes, a \in Addresses :
        /\ access_cache(t, a, MaxColdAccesses)
        /\ touched' = touched \cup {Shr(a, cache.log_line_size)}
        /\ UNCHANGED <<trace_stats, outcomes, other>>

SpecCold == Init /\ [][NextCold]_vars

(***************************************************************************)
(* main.c: the configuration is validated, then the cache is constructed   *)
(* and the trace replayed; a rejected configuration ends the program.      *)
(***************************************************************************)
InitConfig ==
    /\ args \in Configurations
    /\ pc = "config"
    /\ cache = NoCache
    /\ op = NoOp
    /\ ret = FALSE
    /\ set_index = -1
    /\ line_index = -1
    /\ evicted = NoLine
    /\ mru = <<>>
    /\ touched = {}
    /\ stored = <<>>
    /\ trace_stats = NoTraceStats
    /\ outcomes = <<>>
    /\ other = NoCache

set_cache_configuration ==
    /\ pc = "config"
    /\ IF validate_args(args.associativity, args.line_size, args.cache_size,
                        MISS_PENALTY, DIRTY_WB_PENALTY)
       THEN \E c \in {initialize_cache(args.associativity, args.cache_size,
                                       args.line_size, MISS_PENALTY, DIRTY_WB_PENALTY)} :
            /\ cache' = c
            /\ pc' = "run"
            /\ mru' = [s \in DOMAIN c.sets |-> <<>>]
            /\ stored' = [s \in DOMAIN c.sets |-> [l \in DOMAIN c.sets[s] |-> FALSE]]
       ELSE \* printUsage, exit(EXIT_FAILURE)
            /\ pc' = "exit"
            /\ UNCHANGED <<cache, mru, stored>>
    /\ UNCHANGED <<args, op, ret, set_index, line_index, evicted, touched,
                   trace_stats, outcomes, other>>

NextConfig ==
    \/ set_cache_configuration
    \/ \E t \in AccessTypes, a \in Addresses :
           access_cache(t, a, MaxConfigAccesses)
           /\ UNCHANGED <<touched, trace_stats, outcomes, other>>

SpecConfig == InitConfig /\ [][NextConfig]_vars

(***************************************************************************)
(* Properties.                                                             *)
(***************************************************************************)
(***************************************************************************)
(* main.c: simulate_cache reads the trace record by record, hands each to   *)
(* process_trace_line and, at the end of the file, reads the statistics.    *)
(***************************************************************************)
(***************************************************************************)
(* cache.h used as a library: initialize_cache checks none of its          *)
(* arguments, and access_cache is called on whatever it constructed.       *)
(***************************************************************************)
InitEngine == \E g \in EngineGeometries : Constructed(g)

NextEngine ==
    \E t \in AccessTypes, a \in Addresses :
        access_cache(t, a, MaxEngineAccesses)
        /\ UNCHANGED <<touched, trace_stats, outcomes, other>>

SpecEngine == InitEngine /\ [][NextEngine]_vars
(***************************************************************************)
(* Two Cache objects in one process, accessed in any interleaving.         *)
(***************************************************************************)
InitPair ==
    \E g \in PairGeometries, h \in PairGeometries :
        /\ cache = initialize_cache(g.associativity, g.cache_size, g.line_size,
                                    MISS_PENALTY, DIRTY_WB_PENALTY)
        /\ other = initialize_cache(h.associativity, h.cache_size, h.line_size,
                                    MISS_PENALTY, DIRTY_WB_PENALTY)
        /\ args = <<g, h>>
        /\ pc = "run"
        /\ op = NoOp
        /\ ret = FALSE
        /\ set_index = -1
        /\ line_index = -1
        /\ evicted = NoLine
        /\ mru = <<>>
        /\ touched = {}
        /\ stored = <<>>
        /\ trace_stats = NoTraceStats
        /\ outcomes = <<>>

\* slip: the three counters are process-wide, every Cache object reads the
\* same ones
access_engine_shared(engines, e, cache_op, s) ==
    LET r == access_result(engines[e], cache_op, s)
    IN [hit |-> r.hit,
        engines |-> [i \in DOMAIN engines |->
                        IF i = e THEN r.cache
                        ELSE [engines[i] EXCEPT !.stats = r.cache.stats]]]

\* access_cache reads and writes through its `cache` argument only: lines and
\* counters are fields of that Cache object
access_engine(engines, e, cache_op, s) ==
    LET r == access_result(engines[e], cache_op, s)
    IN [hit |-> r.hit, engines |-> [engines EXCEPT ![e] = r.cache]]

\* access_cache(engine e, cache_op)
access_cache_on(e, access_type, address) ==
    LET engines == <<cache, other>>
        cache_op == [access_type |-> access_type, address |-> address]
        s == extract_set_index(address, engines[e])
    IN
    /\ pc = "run"
    /\ Len(outcomes) < MaxPairAccesses
    /\ op' = cache_op
    /\ set_index' = s
    /\ IF s > engines[e].num_sets
       THEN /\ pc' = "exit"
            /\ UNCHANGED <<cache, other, ret, outcomes>>
       ELSE \E r \in {access_engine(engines, e, cache_op, s)} :
            /\ pc' = "run"
            /\ cache' = r.engines[1]
            /\ other' = r.engines[2]
            /\ ret' = r.hit
            /\ outcomes' = Append(outcomes, [engine |-> e, op |-> cache_op, ret |-> r.hit])
    /\ UNCHANGED <<args, line_index, evicted, mru, touched, stored, trace_stats>>

NextPair ==
    \E e \in {1, 2}, t \in AccessTypes, a \in PairAddresses : access_cache_on(e, t, a)

SpecPair == InitPair /\ [][NextPair]_vars

InitTrace ==
    /\ args \in TraceConfigurations
    /\ pc = "config"
    /\ cache = NoCache
    /\ op = NoOp
    /\ ret = FALSE
    /\ set_index = -1
    /\ line_index = -1
    /\ evicted = NoLine
    /\ mru = <<>>
    /\ touched = {}
    /\ stored = <<>>
    /\ trace_stats = NoTraceStats
    /\ outcomes = <<>>
    /\ other = NoCache

\* slip: the miss penalty is charged when access_cache returns true
process_trace_line_hitpenalty(access_type, address, instructions) ==
    /\ access_cache(access_type, address, MaxTraceLines)
    /\ LET counted == [trace_stats EXCEPT
                          !.load_count = IF access_type = "l" THEN @ + 1 ELSE @,
                          !.store_count = IF access_type = "s" THEN @ + 1 ELSE @]
       IN IF pc' = "run"
          THEN /\ trace_stats' =
                      [counted EXCEPT
                          !.cycle_count = @ + (IF ret' THEN cache.miss_penalty ELSE 0)
                                            + instructions,
                          !.instruction_count = @ + instructions,
                          !.memory_access_count = @ + 1]
               /\ outcomes' = Append(outcomes, [engine |-> 1, op |-> op', ret |-> ret',
                                                 instructions |-> instructions])
          ELSE /\ trace_stats' = counted
               /\ outcomes' = outcomes
    /\ UNCHANGED <<touched, other>>

\* the record is counted as a load or a store, or reported as unrecognized;
\* in each case access_cache is called with it, a miss costs miss_penalty
\* cycles, and the instruction, cycle and access counts are updated
process_trace_line(access_type, address, instructions) ==
    /\ access_cache(access_type, address, MaxTraceLines)
    /\ LET counted == [trace_stats EXCEPT
                          !.load_count = IF access_type = "l" THEN @ + 1 ELSE @,
                          !.store_count = IF access_type = "s" THEN @ + 1 ELSE @]
       IN IF pc' = "run"
          THEN /\ trace_stats' =
                      [counted EXCEPT
                          !.cycle_count = @ + (IF ret' THEN 0 ELSE cache.miss_penalty)
                                            + instructions,
                          !.instruction_count = @ + instructions,
                          !.memory_access_count = @ + 1]
               /\ outcomes' = Append(outcomes, [engine |-> 1, op |-> op', ret |-> ret',
                                                 instructions |-> instructions])
          ELSE \* the process ended inside access_cache
               /\ trace_stats' = counted
               /\ outcomes' = outcomes
    /\ UNCHANGED <<touched, other>>
\* slip: the statistics are cleared once they have been read
simulate_cache_reset ==
    /\ pc = "run"
    /\ pc' = "done"
    /\ trace_stats' = [trace_stats EXCEPT
                          !.cycle_count = @ + get_dirty_write_backs(cache)
                                                * cache.dirty_wb_penalty]
    /\ cache' = [cache EXCEPT !.stats = [hits |-> 0, misses |-> 0, dirty_write_backs |-> 0]]
    /\ UNCHANGED <<args, op, ret, set_index, line_index, evicted, mru, touched,
                   stored, outcomes, other>>

\* end of the trace file: the three counters are read through the getters and
\* the cycle count is charged dirty_wb_penalty for each write-back
simulate_cache ==
    /\ pc = "run"
    /\ pc' = "done"
    /\ trace_stats' = [trace_stats EXCEPT
                          !.cycle_count = @ + get_dirty_write_backs(cache)
                                                * cache.dirty_wb_penalty]
    /\ UNCHANGED <<cache, args, op, ret, set_index, line_index, evicted, mru,
                   touched, stored, outcomes, other>>

NextTrace ==
    \/ set_cache_configuration
    \/ \E r \in TraceRecords(args.line_size), i \in TraceInstructions :
           process_trace_line(r.access_type, r.address, i)
    \/ simulate_cache

SpecTrace == InitTrace /\ [][NextTrace]_vars

Running == pc = "run"
Sets == DOMAIN cache.sets
Ways(s) == DOMAIN cache.sets[s]
ValidLines(s) == {l \in Ways(s) : cache.sets[s][l].is_valid}
\* at least one access_cache call has returned
Accessed == Running /\ op # NoOp

\* C1: in every state and every set the lru_order values of the valid lines
\* are exactly 0 .. k-1, k the number of valid lines, each held by one line.
C1_ValidRanksDense ==
    Running =>
        \A s \in Sets :
            LET k == Cardinality(ValidLines(s)) IN
            /\ {cache.sets[s][l].lru_order : l \in ValidLines(s)} = 0..(k - 1)
            /\ \A l1, l2 \in ValidLines(s) :
                   cache.sets[s][l1].lru_order = cache.sets[s][l2].lru_order => l1 = l2

\* a hit has reordered a set of at least two valid lines after an eviction there
C1_Witness ==
    /\ Accessed /\ ret = TRUE
    /\ cache.stats.dirty_write_backs >= 1
    /\ Cardinality(ValidLines(set_index)) >= 2
    /\ cache.sets[set_index][0].lru_order # 0

\* C2: a miss in a set whose lines are all valid overwrites the line of
\* greatest lru_order, and that line is the last of the set's
\* most-recent-first list of touched lines (the least recently used one).
C2_TrueLru ==
    [][(Running /\ pc' = "run" /\ op' # NoOp /\ ret' = FALSE
        /\ ValidLines(set_index') = Ways(set_index'))
       => LET s == set_index'
              l == line_index'
          IN /\ \A i \in Ways(s) : cache.sets[s][i].lru_order <= cache.sets[s][l].lru_order
             /\ Len(mru[s]) = cache.associativity
             /\ mru[s][Len(mru[s])] = l]_vars

\* a full set of several ways evicted a line other than line 0
C2_Witness ==
    /\ Accessed /\ ret = FALSE
    /\ evicted.is_valid
    /\ cache.associativity >= 2
    /\ line_index # 0

\* C3: an access whose line-sized block (address >> log_line_size) was touched
\* by no earlier access returns a miss.
C3_ColdMiss ==
    [][(Running /\ pc' = "run" /\ Shr(op'.address, cache.log_line_size) \notin touched)
       => ret' = FALSE]_vars

\* C4: an access to the address whose access just hit is a hit again, adds one
\* to hits and leaves misses and dirty_write_backs as they were.
C4_HitAgain ==
    [][(Accessed /\ ret = TRUE /\ pc' = "run" /\ op'.address = op.address)
       => /\ ret' = TRUE
          /\ cache'.stats.hits = cache.stats.hits + 1
          /\ cache'.stats.misses = cache.stats.misses
          /\ cache'.stats.dirty_write_backs = cache.stats.dirty_write_backs]_vars

\* three accesses in four direct-mapped sets, all to 0x100, the one address
\* of set 1: a miss, a hit, a hit
C4_Witness ==
    /\ Accessed /\ ret = TRUE
    /\ cache.num_sets = 4
    /\ op.address = {8} /\ set_index = 1
    /\ cache.stats.hits = 2
    /\ cache.stats.misses = 1

\* C5: after a miss the filled line is valid, holds the decoded tag of the
\* request and is dirty exactly when the access was a store.
C5_FilledLine ==
    (Accessed /\ ret = FALSE) =>
        LET line == cache.sets[set_index][line_index] IN
        /\ line.is_valid
        /\ line.tag = extract_tag_number(op.address, cache)
        /\ line.is_dirty = (op.access_type = "s")

\* a load miss replaced a dirty line, a store miss a clean valid one
C5_Witness ==
    /\ Accessed /\ ret = FALSE
    /\ evicted.is_valid
    /\ evicted.is_dirty = (op.access_type = "l")
    /\ cache.stats.dirty_write_backs >= 1

\* C6: a miss adds one to dirty_write_backs exactly when the line it replaces
\* is valid and received a store (at its fill or by a later hit) since it was
\* filled; otherwise the counter keeps its value.
C6_WriteBackAccounting ==
    [][(Running /\ pc' = "run" /\ ret' = FALSE)
       => LET s == set_index'
              l == line_index'
              hadStore == cache.sets[s][l].is_valid /\ stored[s][l]
          IN cache'.stats.dirty_write_backs =
                 cache.stats.dirty_write_backs + (IF hadStore THEN 1 ELSE 0)]_vars

\* a miss replaced a line that a load had filled and a store then hit
C6_Witness ==
    /\ Accessed /\ ret = FALSE
    /\ evicted.is_valid /\ evicted.is_dirty
    /\ cache.stats.dirty_write_backs = 1
    /\ cache.stats.hits >= 1
    /\ \A s \in Sets : \A l \in Ways(s) : ~cache.sets[s][l].is_dirty

\* C7: an access changes no line of any set other than the one its address
\* decodes to, and no field of the geometry.
C7_SpatialIsolation ==
    [][(Running /\ pc' = "run")
       => /\ \A s \in Sets \ {extract_set_index(op'.address, cache)} :
                 cache'.sets[s] = cache.sets[s]
          /\ DOMAIN cache'.sets = Sets
          /\ \A f \in {"associativity", "cache_size", "line_size", "num_sets",
                       "log_line_size", "log_num_sets"} : cache'[f] = cache[f]]_vars

\* an access to set 1 while lines of set 0 are valid
C7_Witness ==
    /\ Accessed
    /\ cache.num_sets >= 2
    /\ set_index = 1
    /\ ValidLines(0) # {}
    /\ ValidLines(1) # {}

\* C8: every accepted configuration is constructed with
\* num_sets * associativity * line_size = cache_size * 1024; associativity 0
\* gives one set of (cache_size * 1024) / line_size ways, associativity 1
\* gives one way.
C8_GeometryProduct ==
    Running =>
        /\ cache.num_sets * cache.associativity * cache.line_size = cache.cache_size * 1024
        /\ args.associativity = 0 =>
               /\ cache.num_sets = 1
               /\ cache.associativity = (cache.cache_size * 1024) \div cache.line_size
        /\ args.associativity = 1 => cache.associativity = 1

\* a set-associative cache of several sets has been constructed
C8_Witness ==
    /\ Running
    /\ args.associativity >= 2
    /\ cache.num_sets >= 2
    /\ cache.associativity = args.associativity

\* C9: the tag stored by a fill is address >> (log_line_size + log_num_sets),
\* every bit of it.
C9_TagLossless ==
    (Accessed /\ ret = FALSE) =>
        cache.sets[set_index][line_index].tag =
            Shr(op.address, cache.log_line_size + cache.log_num_sets)

\* the number the low 31 bits of an address denote
LowValue(address) == Value({b \in address : b < INT_BITS - 1})

\* C10: the decoded set index is 0 for a single set and otherwise
\* (address >> log2(line_size)) & (num_sets - 1), that is the block number
\* modulo num_sets, whatever the lines hold.
C10_SetIndex ==
    Accessed =>
        set_index = IF cache.num_sets = 1 THEN 0
                    ELSE (LowValue(op.address) \div cache.line_size) % cache.num_sets

\* a second access decoded a set other than 0 and 1 in a cache that holds a block
C10_Witness ==
    /\ Accessed
    /\ cache.stats.hits + cache.stats.misses = 2
    /\ cache.num_sets >= 4
    /\ set_index >= 2

\* C11: a direct-mapped cache (associativity 1) has one line per set; a miss
\* in a set whose line is valid overwrites that line with the new, different
\* tag, and an access to the block just replaced, made immediately
\* afterwards, is a miss.
C11_DirectMapped ==
    [][(Running /\ args.associativity = 1 /\ pc' = "run")
       => /\ cache.associativity = 1
          /\ \A s \in Sets : Ways(s) = {0}
          /\ LET s == set_index'
                 resident == cache.sets[s][0]
             IN (ret' = FALSE /\ resident.is_valid)
                => /\ line_index' = 0
                   /\ cache'.sets[s][0].tag = extract_tag_number(op'.address, cache)
                   /\ cache'.sets[s][0].tag # resident.tag
          /\ (Accessed /\ ret = FALSE /\ evicted.is_valid
              /\ set_index' = set_index
              /\ extract_tag_number(op'.address, cache) = evicted.tag)
             => ret' = FALSE]_vars

\* three misses in set 0 of a direct-mapped cache and none elsewhere: the last
\* one, to block 0, replaced the block of tag 1 that had replaced a block before
C11_Witness ==
    /\ Accessed /\ ret = FALSE
    /\ args.associativity = 1
    /\ set_index = 0
    /\ op.address = {}
    /\ evicted.is_valid /\ evicted.tag = {0}
    /\ cache.stats.misses = 3 /\ cache.stats.hits = 0
    /\ \A s \in Sets \ {0} : ValidLines(s) = {}

\* C12: a cache configured with associativity 0 has exactly one set, and every
\* address decodes to set index 0, the one of the access just made included.
C12_FullyAssociative ==
    (Running /\ args.associativity = 0) =>
        /\ cache.num_sets = 1
        /\ Sets = {0}
        /\ \A a \in Addresses : extract_set_index(a, cache) = 0
        /\ Accessed => set_index = 0

\* a fully associative cache of several ways has taken two accesses, the last
\* to an address with a bit above the line offset
C12_Witness ==
    /\ Accessed
    /\ args.associativity = 0
    /\ cache.associativity >= 2
    /\ op.address = {11}
    /\ cache.stats.hits + cache.stats.misses = 2
    /\ ValidLines(0) # {}

\* the CacheOps handed to access_cache so far, and what the calls returned
Calls == [i \in DOMAIN outcomes |-> outcomes[i].op]
Returns == [i \in DOMAIN outcomes |-> outcomes[i].ret]
Load(address) == [access_type |-> "l", address |-> address]
Store(address) == [access_type |-> "s", address |-> address]

\* C13: the configuration associativity 1, 16-byte lines, 16 KB is constructed
\* with 1024 sets of one way, and the trace Load 0x0000, Load 0x0010,
\* Load 0x0000 returns miss, miss, hit and leaves hits = 1, misses = 2,
\* dirty_write_backs = 0.
C13_ScenarioDirectMapped ==
    (args = DefaultConfiguration /\ pc \in {"run", "done"}) =>
        /\ cache.num_sets = 1024
        /\ cache.associativity = 1
        /\ \A s \in Sets : Ways(s) = {0}
        /\ Calls = <<Load({}), Load({4}), Load({})>> =>
               /\ Returns = <<FALSE, FALSE, TRUE>>
               /\ get_cache_hits(cache) = 1
               /\ get_cache_misses(cache) = 2
               /\ get_dirty_write_backs(cache) = 0

\* the three loads have been replayed on the default configuration and the
\* statistics read
C13_Witness ==
    /\ pc = "done"
    /\ args = DefaultConfiguration
    /\ Calls = <<Load({}), Load({4}), Load({})>>
    /\ trace_stats.load_count = 3

\* C14 as stated: the configuration associativity 2, line 16, size 32 is one
\* set of two ways, and the trace Store 0x00, Store 0x10, Store 0x20 misses
\* three times, the third store replacing the dirty line of 0x00, so that
\* dirty_write_backs ends at 1.
C14_ScenarioTwoWay32 ==
    (args = [associativity |-> 2, cache_size |-> 32, line_size |-> 16]
     /\ pc \in {"run", "done"}) =>
        /\ cache.num_sets = 1
        /\ cache.associativity = 2
        /\ Calls = <<Store({}), Store({4}), Store({5})>> =>
               /\ Returns = <<FALSE, FALSE, FALSE>>
               /\ evicted.is_valid /\ evicted.is_dirty /\ evicted.tag = {}
               /\ get_dirty_write_backs(cache) = 1

\* C14: the configuration associativity 2, 512-byte lines, 1 KB is one set of
\* two ways, and the trace Store 0x000, Store 0x200, Store 0x400 misses three
\* times; the third store replaces line 0, which holds block 0x000, is the
\* least recently used and is dirty, so that dirty_write_backs ends at 1.
C14_ScenarioTwoWay ==
    (args = [associativity |-> 2, cache_size |-> 1, line_size |-> 512]
     /\ pc \in {"run", "done"}) =>
        /\ cache.num_sets = 1
        /\ cache.associativity = 2
        /\ Ways(0) = {0, 1}
        /\ Calls = <<Store({}), Store({9}), Store({10})>> =>
               /\ Returns = <<FALSE, FALSE, FALSE>>
               /\ line_index = 0
               /\ evicted = [tag |-> {}, is_valid |-> TRUE, is_dirty |-> TRUE,
                             lru_order |-> 1]
               /\ cache.sets[0][0].tag = {1}
               /\ cache.sets[0][1].tag = {0}
               /\ get_cache_hits(cache) = 0
               /\ get_cache_misses(cache) = 3
               /\ get_dirty_write_backs(cache) = 1

\* the three stores have been replayed on the one-set two-way cache and the
\* statistics read
C14_Witness ==
    /\ pc = "done"
    /\ args = [associativity |-> 2, cache_size |-> 1, line_size |-> 512]
    /\ Calls = <<Store({}), Store({9}), Store({10})>>
    /\ trace_stats.store_count = 3

\* C15: an access_cache call whose decoded set index s is negative or at
\* least num_sets ends the program through the fatal exit and leaves every
\* line and every counter of the cache as it was.
C15_OutOfRangeFatal ==
    [][(Running /\ (set_index' < 0 \/ set_index' >= cache.num_sets))
       => (pc' = "exit" /\ cache' = cache)]_vars

\* C16: processing a trace record whose operation character is neither 'l'
\* nor 's' makes no access_cache call, leaves the cache (lines and counters)
\* and the cycle count as they were, and adds to neither load_count nor
\* store_count.
C16_UnrecognizedSkipped ==
    [][(Running /\ pc' = "run" /\ op'.access_type \notin {"l", "s"})
       => /\ cache' = cache
          /\ outcomes' = outcomes
          /\ trace_stats'.cycle_count = trace_stats.cycle_count
          /\ trace_stats'.load_count = trace_stats.load_count
          /\ trace_stats'.store_count = trace_stats.store_count]_vars

\* C17: construction sets hits, misses and dirty_write_backs to 0; no step,
\* an access or the reading of the statistics at the end of the trace, lowers
\* any of the three; and the reading changes nothing of the cache.
C17_CountersMonotone ==
    [][/\ (pc = "config" /\ pc' = "run")
          => /\ get_cache_hits(cache') = 0
             /\ get_cache_misses(cache') = 0
             /\ get_dirty_write_backs(cache') = 0
       /\ (Running /\ pc' \in {"run", "done"})
          => /\ get_cache_hits(cache') >= get_cache_hits(cache)
             /\ get_cache_misses(cache') >= get_cache_misses(cache)
             /\ get_dirty_write_backs(cache') >= get_dirty_write_backs(cache)
       /\ (Running /\ pc' = "done") => cache' = cache]_vars

\* the statistics have been read after a trace of three misses, the last of
\* which wrote a dirty line back
C17_Witness ==
    /\ pc = "done"
    /\ get_cache_misses(cache) = 3
    /\ get_dirty_write_backs(cache) = 1
    /\ trace_stats.cycle_count > 3 * cache.miss_penalty + cache.dirty_wb_penalty

\* C18: whenever the statistics can be read, hits + misses is the number of
\* access_cache calls that have returned, hits the number that returned true,
\* misses the number that returned false; and that number of calls is
\* memory_access_count, also once the trace has ended.
C18_StatsReflectAccesses ==
    pc \in {"run", "done"} =>
        /\ get_cache_hits(cache) + get_cache_misses(cache) = Len(outcomes)
        /\ get_cache_hits(cache) = Cardinality({i \in DOMAIN outcomes : outcomes[i].ret})
        /\ get_cache_misses(cache) = Cardinality({i \in DOMAIN outcomes : ~outcomes[i].ret})
        /\ get_cache_hits(cache) + get_cache_misses(cache) = trace_stats.memory_access_count

\* a trace of three records, hits and misses among them, has ended
C18_Witness ==
    /\ pc = "done"
    /\ Len(outcomes) = 3
    /\ outcomes[1].ret = FALSE
    /\ outcomes[2].ret = TRUE
    /\ outcomes[3].ret = FALSE
    /\ trace_stats.memory_access_count = 3

RECURSIVE Replay(_, _)
\* the cache and the return values after the calls ops, made in order on c
Replay(c, ops) ==
    IF ops = <<>> THEN [cache |-> c, rets |-> <<>>]
    ELSE LET r == access_result(c, Head(ops), extract_set_index(Head(ops).address, c))
             rest == Replay(r.cache, Tail(ops))
         IN [cache |-> rest.cache, rets |-> <<r.hit>> \o rest.rets]

\* engine e is as if the calls made on it had been made on it alone
ReplayedAlone(e, engine) ==
    LET own == SelectSeq(outcomes, LAMBDA o : o.engine = e)
        alone == Replay(initialize_cache(args[e].associativity, args[e].cache_size,
                                         args[e].line_size, MISS_PENALTY,
                                         DIRTY_WB_PENALTY),
                        [i \in DOMAIN own |-> own[i].op])
    IN /\ engine = alone.cache
       /\ [i \in DOMAIN own |-> own[i].ret] = alone.rets

\* C19: with two Cache objects accessed in any interleaving, the return
\* values, lines and counters of each are those of replaying the calls made
\* on it alone, in their order, on a freshly constructed cache.
C19_EnginesIndependent ==
    Running => ReplayedAlone(1, cache) /\ ReplayedAlone(2, other)

\* calls on the first, the second and the first cache again; the third call
\* hit the block the first call brought in
C19_Witness ==
    /\ Running
    /\ Len(outcomes) = 3
    /\ outcomes[1].engine = 1 /\ outcomes[2].engine = 2 /\ outcomes[3].engine = 1
    /\ outcomes[1].op.address = outcomes[2].op.address
    /\ outcomes[3].ret = TRUE
    /\ get_cache_misses(other) = 1
    /\ get_cache_hits(cache) = 1

\* the CacheOps of the replay
Ops == [access_type : AccessTypes, address : Addresses]

\* C20: from every reachable state, two accesses whose addresses decode to
\* different sets give, made in either order, the same return value to each
\* access and the same cache afterwards: lines, ranks, hits, misses and
\* dirty_write_backs.
C20_DifferentSetsCommute ==
    Running =>
        \A o1, o2 \in Ops :
            LET s1 == extract_set_index(o1.address, cache)
                s2 == extract_set_index(o2.address, cache)
            IN s1 # s2 =>
                  LET first1 == access_result(cache, o1, s1)
                      then2 == access_result(first1.cache, o2, s2)
                      first2 == access_result(cache, o2, s2)
                      then1 == access_result(first2.cache, o1, s1)
                  IN /\ first1.hit = then1.hit
                     /\ first2.hit = then2.hit
                     /\ then2.cache = then1.cache

\* a two-way cache of two sets, set 0 full, a dirty line in each set: accesses
\* to the two sets can hit, fill or replace with a write-back
C20_Witness ==
    /\ Accessed
    /\ cache.num_sets = 2 /\ cache.associativity = 2
    /\ ValidLines(0) = Ways(0)
    /\ \E l \in Ways(0) : cache.sets[0][l].is_dirty
    /\ \E l \in Ways(1) : cache.sets[1][l].is_dirty

\* C21: a miss in a set that has an invalid line fills the invalid line of
\* lowest index, leaves tag, valid bit and dirty bit of every valid line of
\* the set as they were, and does not add to dirty_write_backs.
C21_ColdFillFirst ==
    [][(Running /\ pc' = "run" /\ ret' = FALSE
        /\ ValidLines(set_index') # Ways(set_index'))
       => LET s == set_index'
              before == cache.sets[s]
              after == cache'.sets[s]
          IN /\ line_index' = Min(Ways(s) \ ValidLines(s))
             /\ ~before[line_index'].is_valid
             /\ \A l \in ValidLines(s) :
                    /\ after[l].is_valid
                    /\ after[l].tag = before[l].tag
                    /\ after[l].is_dirty = before[l].is_dirty
             /\ cache'.stats.dirty_write_backs = cache.stats.dirty_write_backs]_vars

\* a miss filled line 2 of a four-way set whose line 0 had just been hit, so
\* that the line of greatest rank among the valid ones was line 1
C21_Witness ==
    /\ Accessed /\ ret = FALSE
    /\ cache.associativity = 4
    /\ line_index = 2
    /\ ~evicted.is_valid
    /\ cache.stats.hits >= 1
    /\ cache.sets[set_index][1].lru_order = 2
    /\ cache.sets[set_index][1].is_dirty
    /\ cache.stats.dirty_write_backs = 0

\* C22: access_cache returns true exactly when, before the call, some line of
\* the decoded set is valid and holds the decoded tag; a line that is not
\* valid gives no hit, whatever its tag.
C22_HitDetection ==
    [][(Running /\ pc' = "run")
       => LET s == set_index'
              tag == extract_tag_number(op'.address, cache)
          IN /\ ret' = (\E l \in Ways(s) : /\ cache.sets[s][l].is_valid
                                           /\ cache.sets[s][l].tag = tag)
             /\ ret' => /\ cache.sets[s][line_index'].is_valid
                        /\ cache.sets[s][line_index'].tag = tag]_vars

\* the second access of a two-way cache missed on tag 0 in a set whose line 1
\* is not valid and holds the initial tag 0, line 0 holding another tag
C22_Witness ==
    /\ Accessed /\ ret = FALSE
    /\ cache.associativity = 2
    /\ extract_tag_number(op.address, cache) = {}
    /\ line_index = 1
    /\ ~evicted.is_valid /\ evicted.tag = {}
    /\ cache.sets[set_index][0].tag # {}
    /\ cache.stats.misses = 2 /\ cache.stats.hits = 0

LineState(line) ==
    IF ~line.is_valid THEN "Invalid"
    ELSE IF line.is_dirty THEN "Dirty" ELSE "Clean"

\* C24: across an access every line but the target keeps its state; the line
\* hit goes Clean -> Clean on a load, Clean -> Dirty on a store and
\* Dirty -> Dirty on either; the line filled by a miss ends Clean after a
\* load and Dirty after a store, whatever it was.
C24_LineStateMachine ==
    [][(Running /\ pc' = "run")
       => \A s \in Sets : \A l \in Ways(s) :
              LET from == LineState(cache.sets[s][l])
                  to == LineState(cache'.sets[s][l])
                  kind == op'.access_type
              IN IF s # set_index' \/ l # line_index' THEN to = from
                 ELSE IF ret'
                 THEN <<from, kind, to>> \in {<<"Clean", "l", "Clean">>,
                                              <<"Clean", "s", "Dirty">>,
                                              <<"Dirty", "l", "Dirty">>,
                                              <<"Dirty", "s", "Dirty">>}
                 ELSE <<kind, to>> \in {<<"l", "Clean">>, <<"s", "Dirty">>}]_vars

\* a load hit a dirty line, which stayed dirty
C24_Witness ==
    /\ Accessed /\ ret = TRUE
    /\ op.access_type = "l"
    /\ cache.sets[set_index][line_index].is_dirty
    /\ cache.stats.misses >= 2
    /\ \E s \in Sets : \E l \in Ways(s) : LineState(cache.sets[s][l]) = "Clean"

\* C25: every line is invalid after construction; a line that is valid is
\* valid after every access, so that the number of valid lines of each set
\* never falls, and it never exceeds the number of ways.
C25_ValidStaysValid ==
    [][/\ (Running /\ op = NoOp) => \A s \in Sets : ValidLines(s) = {}
       /\ (Running /\ pc' = "run")
          => \A s \in Sets :
                 LET after == {l \in Ways(s) : cache'.sets[s][l].is_valid}
                 IN /\ ValidLines(s) \subseteq after
                    /\ Cardinality(ValidLines(s)) <= Cardinality(after)
                    /\ Cardinality(after) <= cache.associativity]_vars

\* a miss replaced a valid line of a full set of several ways, which is full
\* afterwards
C25_Witness ==
    /\ Accessed /\ ret = FALSE
    /\ evicted.is_valid
    /\ cache.associativity >= 2
    /\ ValidLines(set_index) = Ways(set_index)
    /\ cache.stats.misses > cache.associativity

\* tag, valid bit and dirty bit of a line
Contents(line) == <<line.tag, line.is_valid, line.is_dirty>>

\* C26: an access changes tag, valid bit or dirty bit of no line but its
\* target.  On a hit the target keeps tag and valid bit and its dirty bit
\* changes only by a store setting it; on a miss the target is overwritten
\* and the other lines of the set keep tag, valid bit and dirty bit.
C26_OneLineChanged ==
    [][(Running /\ pc' = "run")
       => /\ \A s \in Sets : \A l \in Ways(s) :
                 (s # set_index' \/ l # line_index')
                 => Contents(cache'.sets[s][l]) = Contents(cache.sets[s][l])
          /\ LET before == cache.sets[set_index'][line_index']
                 after == cache'.sets[set_index'][line_index']
             IN IF ret'
                THEN /\ after.tag = before.tag
                     /\ after.is_valid = before.is_valid
                     /\ after.is_dirty # before.is_dirty
                        => (op'.access_type = "s" /\ after.is_dirty)
                ELSE Contents(after) =
                         <<extract_tag_number(op'.address, cache), TRUE,
                           op'.access_type = "s">>]_vars

\* a load miss replaced a line of a full set of several ways in which another
\* line is dirty and stays so
C26_Witness ==
    /\ Accessed /\ ret = FALSE
    /\ op.access_type = "l"
    /\ evicted.is_valid
    /\ cache.associativity >= 2
    /\ \E l \in Ways(set_index) \ {line_index} : cache.sets[set_index][l].is_dirty

\* the addresses of the replay, every address of a single one-bit, and the
\* address of 64 one-bits
DecodedAddresses == Addresses \cup {{b} : b \in 0..63} \cup {0..63}

\* C27: in a cache constructed from a configuration validate_args accepted,
\* every address decodes to a set index in 0 .. num_sets - 1; no access_cache
\* call takes the "Set index is out of range" exit or reads beyond the array
\* of sets.
C27_SetIndexInRange ==
    /\ pc # "segv"
    /\ pc = "exit" => op = NoOp
    /\ Running =>
           /\ Sets = 0..(cache.num_sets - 1)
           /\ \A a \in DecodedAddresses :
                  extract_set_index(a, cache) \in 0..(cache.num_sets - 1)
    /\ Accessed => set_index \in Sets

\* a cache of at least 64 sets has taken an access to 0x800, whose one-bit
\* lies among the set index bits, and decoded a set other than 0
C27_Witness ==
    /\ Accessed
    /\ cache.num_sets >= 64
    /\ op.address = {11}
    /\ set_index > 0
    /\ cache.log_line_size + cache.log_num_sets > 11

\* n is 2^k for some k >= 0
IsPowerOfTwo(n) == \E k \in 0..30 : n = Pow2(k)

\* the conditions of C28 on a configuration.  With cache bytes =
\* 1024 * cache_size, the three conditions on it are written with quotients,
\* so that no product leaves the range of the integers of the model:
\*   cache bytes >= line_size               iff  ceil(line_size / 1024) <= cache_size
\*   cache bytes divisible by line_size     iff  (1024 % l) * (cache_size % l) % l = 0
\*   associativity <= cache bytes / line_size
\*                             iff  ceil(associativity * line_size / 1024) <= cache_size
WellFormed(a, miss_penalty, dirty_wb_penalty) ==
    /\ a.associativity >= 0
    /\ a.line_size > 0 /\ a.cache_size > 0
    /\ miss_penalty > 0 /\ dirty_wb_penalty > 0
    /\ a.associativity \in {0, 1} \/ IsPowerOfTwo(a.associativity)
    /\ IsPowerOfTwo(a.line_size) /\ IsPowerOfTwo(a.cache_size)
    /\ (a.line_size + 1023) \div 1024 <= a.cache_size
    /\ ((1024 % a.line_size) * (a.cache_size % a.line_size)) % a.line_size = 0
    /\ (a.associativity * a.line_size + 1023) \div 1024 <= a.cache_size

\* C28: validate_args returns true exactly for the configurations that meet
\* the conditions above, whatever the penalties; the program goes on to
\* construct the cache exactly for those; and the cache constructed has
\* num_sets >= 1 and ways >= 1, both powers of two.
C28_ValidationExact ==
    /\ \A mp, dp \in {-1, 0, 1, MISS_PENALTY} :
           validate_args(args.associativity, args.line_size, args.cache_size, mp, dp)
               = WellFormed(args, mp, dp)
    /\ pc # "config" =>
           (pc = "exit" /\ op = NoOp) = ~WellFormed(args, MISS_PENALTY, DIRTY_WB_PENALTY)
    /\ Running =>
           /\ cache.num_sets >= 1 /\ IsPowerOfTwo(cache.num_sets)
           /\ cache.associativity >= 1 /\ IsPowerOfTwo(cache.associativity)

RECURSIVE SumInstructions(_)
\* the instruction counts of the records, added up
SumInstructions(records) ==
    IF records = <<>> THEN 0
    ELSE Head(records).instructions + SumInstructions(Tail(records))

\* the number of calls that returned false
MissReturns == Cardinality({i \in DOMAIN outcomes : ~outcomes[i].ret})

\* C29: while the trace is replayed cycle_count is the sum of the instruction
\* counts of the records processed plus miss_penalty for each access_cache
\* call that returned false; once the trace has ended it is that sum, over
\* all records, plus misses * miss_penalty plus
\* dirty_write_backs * dirty_wb_penalty.
C29_CycleAccounting ==
    /\ Running =>
           trace_stats.cycle_count =
               SumInstructions(outcomes) + MissReturns * cache.miss_penalty
    /\ pc = "done" =>
           /\ MissReturns = get_cache_misses(cache)
           /\ trace_stats.instruction_count = SumInstructions(outcomes)
           /\ trace_stats.cycle_count =
                  SumInstructions(outcomes)
                  + get_cache_misses(cache) * cache.miss_penalty
                  + get_dirty_write_backs(cache) * cache.dirty_wb_penalty

\* a trace of a miss, a hit and a miss has ended: 2 * 30 cycles of penalty on
\* top of the instruction counts
C29_Witness ==
    /\ pc = "done"
    /\ Returns = <<FALSE, TRUE, FALSE>>
    /\ get_dirty_write_backs(cache) = 0
    /\ trace_stats.cycle_count = trace_stats.instruction_count + 2 * MISS_PENALTY
    /\ trace_stats.instruction_count > 0

\* C30: the valid lines of each set occupy a prefix of the slot indices: if
\* line i of a set is valid then every line j < i of that set is valid.
C30_ValidPrefix ==
    Running =>
        \A s \in Sets : \A i \in ValidLines(s) : \A j \in Ways(s) :
            j < i => j \in ValidLines(s)

\* two misses have filled lines 0 and 1 of a set of four lines, and the other
\* two lines of the set are still invalid
C30_Witness ==
    /\ Accessed
    /\ \E s \in Sets :
           /\ Cardinality(Ways(s)) = 4
           /\ ValidLines(s) = {0, 1}
    /\ get_cache_misses(cache) >= 2

\* every invalid line of cache c holds what initialize_cache_lines wrote
InvalidLinesInitial(c) ==
    \A s \in DOMAIN c.sets : \A l \in DOMAIN c.sets[s] :
        ~c.sets[s][l].is_valid =>
            c.sets[s][l] = [tag |-> {}, is_valid |-> FALSE, is_dirty |-> FALSE,
                            lru_order |-> l]

Matching(s, tag) == {l \in ValidLines(s) : cache.sets[s][l].tag = tag}

\* C32: no two valid lines of a set hold the same tag; the lookup of any
\* address matches at most one line of its set.
C32_TagsUnique ==
    Running =>
        /\ \A s \in Sets : \A l1, l2 \in ValidLines(s) :
               cache.sets[s][l1].tag = cache.sets[s][l2].tag => l1 = l2
        /\ \A a \in Addresses :
               LET s == extract_set_index(a, cache) IN
               s \in Sets =>
                   Cardinality(Matching(s, extract_tag_number(a, cache))) <= 1

\* a hit in a set that holds three blocks: the tag of the request is in the
\* line hit and in no other
C32_Witness ==
    /\ Accessed /\ ret = TRUE
    /\ Cardinality(ValidLines(set_index)) >= 3
    /\ Matching(set_index, extract_tag_number(op.address, cache)) = {line_index}

\* C33: from construction on the lru_order values of all lines of each set,
\* valid or not, are a permutation of 0 .. associativity - 1: each value is in
\* that range, no two lines of a set share one and every value is taken.
C33_RanksPermutation ==
    Running =>
        \A s \in Sets :
            LET rank == [l \in Ways(s) |-> cache.sets[s][l].lru_order] IN
            /\ \A l \in Ways(s) : rank[l] \in 0..(cache.associativity - 1)
            /\ \A l1, l2 \in Ways(s) : rank[l1] = rank[l2] => l1 = l2
            /\ {rank[l] : l \in Ways(s)} = 0..(cache.associativity - 1)

\* a hit on line 0 of a set of four lines of which line 3 was never filled:
\* line 0 has rank 0, the invalid line 3 rank 3, lines 1 and 2 ranks 1 and 2
C33_Witness ==
    /\ Accessed /\ ret = TRUE
    /\ Cardinality(Ways(set_index)) = 4
    /\ ValidLines(set_index) = {0, 1, 2}
    /\ line_index = 0
    /\ cache.sets[set_index][3].lru_order = 3
    /\ {cache.sets[set_index][1].lru_order, cache.sets[set_index][2].lru_order} = {1, 2}

\* the lines of the cache that are dirty, as <<set, line>> pairs
DirtyLines ==
    {sl \in Sets \X (0..(cache.associativity - 1)) : cache.sets[sl[1]][sl[2]].is_dirty}

\* the number of access_cache calls made so far with a store
StoresProcessed ==
    Cardinality({i \in DOMAIN outcomes : outcomes[i].op.access_type = "s"})

\* C34: dirty_write_backs is at most misses; dirty_write_backs plus the number
\* of dirty lines is at most the number of stores processed so far; as long as
\* no store has been processed dirty_write_backs is 0 and every line is clean.
C34_WriteBackConservation ==
    pc \in {"run", "done"} =>
        /\ get_dirty_write_backs(cache) <= get_cache_misses(cache)
        /\ get_dirty_write_backs(cache) + Cardinality(DirtyLines) <= StoresProcessed
        /\ StoresProcessed = 0 =>
               /\ get_dirty_write_backs(cache) = 0
               /\ DirtyLines = {}

\* three stores to three blocks of the one set of a two-way cache: the third
\* evicted the dirty line of the first, one write-back and two dirty lines
C34_Witness ==
    /\ pc = "run"
    /\ cache.num_sets = 1 /\ cache.associativity = 2
    /\ StoresProcessed = 3
    /\ Returns = <<FALSE, FALSE, FALSE>>
    /\ get_dirty_write_backs(cache) = 1
    /\ Cardinality(DirtyLines) = 2

====
